---- MODULE Spec2Model ----
(***************************************************************************)
(* cc-score: the scoring pipeline of src/cli.mjs.                          *)
(*                                                                         *)
(* One run of the script: print the help text and stop when asked to,      *)
(* otherwise load the usage log from the candidate data                    *)
(* sources, fail when none yields one, otherwise compute the five          *)
(* component scores for the anchor date, add them, grade the total and     *)
(* print the report.                                                       *)
(*                                                                         *)
(* JavaScript values are tagged records so that the coercions the scorers  *)
(* rely on (v || 0, +, >, ===, Math.round, Math.min) are modelled by what  *)
(* they do on numbers, missing fields, non-numeric strings and NaN.        *)
(* Numbers are exact rationals n/d; hours are drawn from integers.         *)
(* A date string "YYYY-MM-DD" is the triple <<y, m, d>> of its fields.     *)
(***************************************************************************)
EXTENDS Integers, Sequences, FiniteSets, TLC

VARIABLES
    sources,      \* what each candidate command of loadData yields, in order
    clock,        \* the local calendar date localToday() returns
    helpFlag,     \* --help or -h given
    jsonFlag,     \* --json given
    shareFlag,    \* --share given
    pc,           \* position of the script
    data,         \* result of loadData()
    today,        \* const today
    byDate,       \* const byDate
    consistency,  \* result of scoreConsistency
    autonomy,     \* result of scoreAutonomy
    ghostScore,   \* result of scoreGhostDays
    volume,       \* result of scoreVolume
    streak,       \* result of scoreStreak(computeStreak(...))
    total,        \* const total
    g,            \* const g = grade(total)
    stdout,       \* what console.log printed, in order
    stderr,       \* what console.error printed, in order
    exitCode      \* process exit status, "running" until the script ends

vars == <<sources, clock, helpFlag, jsonFlag, shareFlag, pc, data, today, byDate,
          consistency, autonomy, ghostScore, volume, streak, total, g,
          stdout, stderr, exitCode>>

(***************************************************************************)
(* JavaScript values                                                       *)
(***************************************************************************)
Num(i) == [k |-> "num", n |-> i, d |-> 1]
Frac(a, b) == [k |-> "num", n |-> a, d |-> b]
NaN == [k |-> "nan", n |-> 0, d |-> 1]
\* a non-empty string that is not a numeric literal, and neither is any
\* string it is concatenated into (e.g. "n/a")
Str == [k |-> "str", n |-> 0, d |-> 1]
\* a property that is absent (or null)
Undef == [k |-> "undef", n |-> 0, d |-> 1]

IsNum(v) == v.k = "num"
IsInt(v) == v.k = "num" /\ v.d = 1

\* ToBoolean
Truthy(v) ==
    CASE v.k = "num" -> v.n # 0
      [] v.k = "str" -> TRUE
      [] OTHER -> FALSE

\* v || 0
OrZero(v) == IF Truthy(v) THEN v ELSE Num(0)

\* ToNumber
ToNumber(v) == IF v.k = "num" THEN v ELSE NaN

\* a + b : string concatenation when either side is a string
Add(a, b) ==
    IF a.k = "str" \/ b.k = "str" THEN Str
    ELSE IF a.k # "num" \/ b.k # "num" THEN NaN
    ELSE Frac(a.n * b.d + b.n * a.d, a.d * b.d)

\* a > 0
Gt0(a) == LET x == ToNumber(a) IN x.k = "num" /\ x.n > 0

\* a === 0
StrictEq0(a) == a.k = "num" /\ a.n = 0

\* a / b, for b > 0 (every division of the script is guarded or by a literal)
Div(a, b) ==
    LET x == ToNumber(a)
        y == ToNumber(b)
    IN IF x.k # "num" \/ y.k # "num" THEN NaN
       ELSE Frac(x.n * y.d, x.d * y.n)

\* a * b
Mul(a, b) ==
    LET x == ToNumber(a)
        y == ToNumber(b)
    IN IF x.k # "num" \/ y.k # "num" THEN NaN
       ELSE Frac(x.n * y.n, x.d * y.d)

\* Math.round: nearest integer, halves towards +Infinity
MathRound(a) ==
    IF a.k # "num" THEN NaN
    ELSE Num((2 * a.n + a.d) \div (2 * a.d))

\* Math.min(c, a) for an integer literal c
MathMin(c, a) ==
    IF a.k # "num" THEN NaN
    ELSE IF a.n < c * a.d THEN a ELSE Num(c)

(***************************************************************************)
(* Day records and the usage log                                           *)
(***************************************************************************)
\* { main: m, sub: s }
Obj(m, s) == [t |-> "object", main |-> m, sub |-> s, val |-> Undef]
\* a value that is not an object: a legacy number, or a string
Scalar(v) == [t |-> "scalar", main |-> Undef, sub |-> Undef, val |-> v]
\* byDate[d] when the key is absent
Missing == Scalar(Undef)

\* byDate[d]
Lookup(log, d) == IF d \in DOMAIN log THEN log[d] ELSE Missing

\* ToBoolean of a day record: every object is truthy
RecTruthy(v) == IF v.t = "object" THEN TRUE ELSE Truthy(v.val)

EmptyLog == [x \in {} |-> Missing]

(***************************************************************************)
(* Date helpers                                                            *)
(***************************************************************************)
IsLeap(y) == (y % 4 = 0 /\ y % 100 # 0) \/ y % 400 = 0

DaysInMonth(y, m) ==
    IF m = 2 THEN (IF IsLeap(y) THEN 29 ELSE 28)
    ELSE IF m \in {4, 6, 9, 11} THEN 30 ELSE 31

\* the Date object normalising a day-of-month outside 1..DaysInMonth
RECURSIVE Normalize(_, _, _)
Normalize(y, m, d) ==
    IF d < 1 THEN
        LET py == IF m = 1 THEN y - 1 ELSE y
            pm == IF m = 1 THEN 12 ELSE m - 1
        IN Normalize(py, pm, d + DaysInMonth(py, pm))
    ELSE IF d > DaysInMonth(y, m) THEN
        LET ny == IF m = 12 THEN y + 1 ELSE y
            nm == IF m = 12 THEN 1 ELSE m + 1
        IN Normalize(ny, nm, d - DaysInMonth(y, m))
    ELSE <<y, m, d>>

\* addDays(dateStr, n)
addDays(dateStr, n) == Normalize(dateStr[1], dateStr[2], dateStr[3] + n)

(***************************************************************************)
(* Load cc-agent-load                                                      *)
(***************************************************************************)
\* loadData() returning null
NullData == [isNull |-> TRUE, byDate |-> EmptyLog]
\* loadData() returning the parsed json
Json(log) == [isNull |-> FALSE, byDate |-> log]

\* what one candidate command can yield
\*   throws       execFileSync throws (not found, non-zero exit, timeout)
\*   unparseable  JSON.parse throws
\*   null         the output parses to null: json.byDate throws
\*   noByDate     an object without a byDate property
\*   falsyByDate  byDate is null, false, 0 or ""
\*   nonMapping   byDate is truthy but no mapping: a non-empty string, a
\*                non-zero number, true or an array
\*   ok           byDate is a mapping from date strings to day records
SourceKinds ==
    {"throws", "unparseable", "null", "noByDate", "falsyByDate", "nonMapping", "ok"}

\* a byDate that is no mapping: byDate[d] is undefined for every date
\* string d, as in a mapping without keys
Keyless == EmptyLog

Source(kind, log) == [kind |-> kind, byDate |-> log]

\* the loop of loadData from candidate i on: the first candidate whose
\* output parses to an object with a truthy byDate wins, mapping or not;
\* everything else (execFileSync throwing, JSON.parse throwing, a
\* property read on null, a missing or falsy byDate) moves on to the next
\* candidate
RECURSIVE loadFrom(_, _)
loadFrom(paths, i) ==
    IF i > Len(paths) THEN NullData
    ELSE CASE paths[i].kind = "throws" -> loadFrom(paths, i + 1)
           [] paths[i].kind = "unparseable" -> loadFrom(paths, i + 1)
           [] paths[i].kind = "null" -> loadFrom(paths, i + 1)
           [] paths[i].kind = "noByDate" -> loadFrom(paths, i + 1)
           [] paths[i].kind = "falsyByDate" -> loadFrom(paths, i + 1)
           [] paths[i].kind = "nonMapping" -> Json(Keyless)
           [] paths[i].kind = "ok" -> Json(paths[i].byDate)

loadData(paths) == loadFrom(paths, 1)

(***************************************************************************)
(* Streak calculation                                                      *)
(***************************************************************************)
\* typeof v === 'object' ? (v.main || 0) + (v.sub || 0) : (v || 0)
activeHours(v) ==
    IF v.t = "object" THEN Add(OrZero(v.main), OrZero(v.sub)) ELSE OrZero(v.val)

\* the while loop of computeStreak
RECURSIVE streakLoop(_, _, _)
streakLoop(log, d, n) ==
    IF ~RecTruthy(Lookup(log, d)) THEN n
    ELSE IF StrictEq0(activeHours(Lookup(log, d))) THEN n
    ELSE streakLoop(log, addDays(d, 0 - 1), n + 1)

\* computeStreak without the fallback to yesterday
streakStartNoFallback(log, t) == t

\* the date the walk of computeStreak starts from
streakStart(log, t) ==
    IF ~RecTruthy(Lookup(log, t)) THEN addDays(t, 0 - 1) ELSE t

computeStreak(log, t) == streakLoop(log, streakStart(log, t), 0)

(***************************************************************************)
(* Score components                                                        *)
(***************************************************************************)
Window == 30

\* the for loop of scoreConsistency
RECURSIVE consistencyLoop(_, _, _, _, _)
consistencyLoop(log, t, window, i, active) ==
    IF i >= window THEN active
    ELSE LET v == Lookup(log, addDays(t, 0 - i))
         IN IF ~RecTruthy(v) THEN consistencyLoop(log, t, window, i + 1, active)
            ELSE IF Gt0(activeHours(v))
                 THEN consistencyLoop(log, t, window, i + 1, active + 1)
                 ELSE consistencyLoop(log, t, window, i + 1, active)

consistencyPoints(pct) == MathRound(Mul(pct, Num(30)))

scoreConsistency(log, t, window) ==
    LET active == consistencyLoop(log, t, window, 0, 0)
        pct == Div(Num(active), Num(window))
    IN [raw |-> pct, points |-> consistencyPoints(pct),
        activeDays |-> active, window |-> window]

\* typeof v === 'object' ? (v.main || 0) : 0
mainOf(v) == IF v.t = "object" THEN OrZero(v.main) ELSE Num(0)
\* typeof v === 'object' ? (v.sub || 0) : (v || 0)
subOf(v) == IF v.t = "object" THEN OrZero(v.sub) ELSE OrZero(v.val)

\* the for loop of scoreAutonomy, returning <<main, sub>>
RECURSIVE autonomyLoop(_, _, _, _, _, _)
autonomyLoop(log, t, window, i, main, sub) ==
    IF i >= window THEN <<main, sub>>
    ELSE LET v == Lookup(log, addDays(t, 0 - i))
         IN IF ~RecTruthy(v) THEN autonomyLoop(log, t, window, i + 1, main, sub)
            ELSE autonomyLoop(log, t, window, i + 1,
                              Add(main, mainOf(v)), Add(sub, subOf(v)))

\* scoreAutonomy without the secondary-only case
autonomyRatioNoSubOnly(main, sub) ==
    IF Gt0(main) THEN Div(sub, main) ELSE Num(0)

autonomyRatio(main, sub) ==
    IF Gt0(main) THEN Div(sub, main)
    ELSE IF Gt0(sub) THEN Num(2) ELSE Num(0)

\* Math.min(25, Math.round(ratio * 12.5)). The product is a double: for
\* ratio = 1.16 (29/25) it is 14.499999999999998 and rounds to 14, where
\* the exact product 14.5 would round to 15. For integer hour sums this is
\* the only quotient on which the double and the exact result differ.
autonomyPoints(ratio) ==
    IF ratio.k = "num" /\ 25 * ratio.n = 29 * ratio.d THEN Num(14)
    ELSE MathMin(25, MathRound(Mul(ratio, Frac(25, 2))))

scoreAutonomy(log, t, window) ==
    LET ms == autonomyLoop(log, t, window, 0, Num(0), Num(0))
        ratio == autonomyRatio(ms[1], ms[2])
    IN [ratio |-> ratio, points |-> autonomyPoints(ratio),
        mainHours |-> ms[1], subHours |-> ms[2]]

\* the for loop of scoreGhostDays, returning <<ghost, active>>
RECURSIVE ghostLoop(_, _, _, _, _, _)
ghostLoop(log, t, window, i, ghost, active) ==
    IF i >= window THEN <<ghost, active>>
    ELSE LET v == Lookup(log, addDays(t, 0 - i))
             m == mainOf(v)
             s == subOf(v)
         IN IF ~RecTruthy(v) THEN ghostLoop(log, t, window, i + 1, ghost, active)
            ELSE IF Gt0(m) \/ Gt0(s)
                 THEN IF StrictEq0(m) /\ Gt0(s)
                      THEN ghostLoop(log, t, window, i + 1, ghost + 1, active + 1)
                      ELSE ghostLoop(log, t, window, i + 1, ghost, active + 1)
                 ELSE ghostLoop(log, t, window, i + 1, ghost, active)

ghostPct(ghost, active) ==
    IF active > 0 THEN Div(Num(ghost), Num(active)) ELSE Num(0)

\* scoreGhostDays scaling the percentage by its maximum
ghostPointsScale20(pct) == MathMin(20, MathRound(Mul(pct, Num(20))))

ghostPoints(pct) == MathMin(20, MathRound(Mul(pct, Num(25))))

scoreGhostDays(log, t, window) ==
    LET ga == ghostLoop(log, t, window, 0, 0, 0)
        pct == ghostPct(ga[1], ga[2])
    IN [ghostDays |-> ga[1], activeDays |-> ga[2], pct |-> pct,
        points |-> ghostPoints(pct)]

\* the for loop of scoreVolume
RECURSIVE volumeLoop(_, _, _, _, _)
volumeLoop(log, t, window, i, sum) ==
    IF i >= window THEN sum
    ELSE LET v == Lookup(log, addDays(t, 0 - i))
         IN IF ~RecTruthy(v) THEN volumeLoop(log, t, window, i + 1, sum)
            ELSE volumeLoop(log, t, window, i + 1, Add(sum, activeHours(v)))

\* scoreVolume without the cap
volumePointsUncapped(sum) == MathRound(Mul(Div(sum, Num(100)), Num(15)))

volumePoints(sum) == MathMin(15, MathRound(Mul(Div(sum, Num(100)), Num(15))))

\* scoreVolume with the loop bound i <= window
scoreVolumeInclusive(log, t, window) ==
    LET sum == volumeLoop(log, t, window + 1, 0, Num(0))
    IN [totalHours |-> sum, points |-> volumePoints(sum)]

scoreVolume(log, t, window) ==
    LET sum == volumeLoop(log, t, window, 0, Num(0))
    IN [totalHours |-> sum, points |-> volumePoints(sum)]

\* scoreStreak without the cap
scoreStreakUncapped(n) ==
    [streak |-> n, points |-> MathRound(Mul(Div(Num(n), Num(30)), Num(10)))]

scoreStreak(n) ==
    [streak |-> n, points |-> MathMin(10, MathRound(Mul(Div(Num(n), Num(30)), Num(10))))]

\* consistency.points + autonomy.points + ghostScore.points + volume.points
\*   + streak.points
sumPoints(c, a, gh, v, s) ==
    Add(Add(Add(Add(c.points, a.points), gh.points), v.points), s.points)

(***************************************************************************)
(* Grade                                                                   *)
(***************************************************************************)
\* score >= c, false for NaN
Ge(score, c) == score.k = "num" /\ score.n >= c * score.d

\* grade with the S boundary exclusive
gradeExclusive(score) ==
    IF Ge(score, 91) THEN [grade |-> "S", label |-> "Cyborg"]
    ELSE IF Ge(score, 75) THEN [grade |-> "A", label |-> "Power User"]
    ELSE IF Ge(score, 60) THEN [grade |-> "B", label |-> "Growing"]
    ELSE IF Ge(score, 45) THEN [grade |-> "C", label |-> "Early Stage"]
    ELSE IF Ge(score, 30) THEN [grade |-> "D", label |-> "Getting Started"]
    ELSE [grade |-> "F", label |-> "Dormant"]

grade(score) ==
    IF Ge(score, 90) THEN [grade |-> "S", label |-> "Cyborg"]
    ELSE IF Ge(score, 75) THEN [grade |-> "A", label |-> "Power User"]
    ELSE IF Ge(score, 60) THEN [grade |-> "B", label |-> "Growing"]
    ELSE IF Ge(score, 45) THEN [grade |-> "C", label |-> "Early Stage"]
    ELSE IF Ge(score, 30) THEN [grade |-> "D", label |-> "Getting Started"]
    ELSE [grade |-> "F", label |-> "Dormant"]

(***************************************************************************)
(* Inputs of a run                                                         *)
(***************************************************************************)
\* longest run of equal records in a generated log
MaxRun == 37
\* largest number of hours in one field of a generated record
MaxHours == 4

\* anchor dates: the window and the streak walk cross a leap February,
\* a year boundary and a non-leap February
Todays == {<<2024, 3, 1>>, <<2024, 1, 10>>, <<2023, 3, 20>>}

\* well-typed day records: structured and legacy, zero and positive
Records ==
    {Obj(Num(0), Num(0)), Obj(Num(3), Num(0)), Obj(Num(0), Num(3)),
     Obj(Num(2), Num(3)), Obj(Num(2), Num(2)),
     Scalar(Num(0)), Scalar(Num(MaxHours))}

\* malformed day records: a missing field, a non-numeric field, a
\* non-numeric record
Malformed ==
    {Obj(Undef, Num(3)), Obj(Num(2), Undef), Obj(Str, Num(3)),
     Obj(Num(2), Str), Scalar(Str)}

\* the k consecutive dates t-o, t-o-1, ..., t-o-(k-1)
RunDates(t, o, k) == {addDays(t, 0 - (o + i)) : i \in 0 .. (k - 1)}

\* what follows the first run of a generated log: gap days without a
\* record, then len days of rec
Tails ==
    {[gap |-> 0, len |-> 0, rec |-> Scalar(Num(0))],
     [gap |-> 0, len |-> 1, rec |-> Obj(Num(2), Num(2))],
     [gap |-> 0, len |-> 8, rec |-> Obj(Num(2), Num(3))],
     [gap |-> 1, len |-> 3, rec |-> Scalar(Num(MaxHours))]}

\* a log: k days of r ending o days before t (o = -1: ending tomorrow),
\* followed by a tail
RunLog(t, o, k, r, tail) ==
    LET first == RunDates(t, o, k)
        second == RunDates(t, o + k + tail.gap, tail.len)
    IN [x \in first \cup second |-> IF x \in first THEN r ELSE tail.rec]

\* log with the record of date x set to r
WithRecord(log, x, r) ==
    [y \in DOMAIN log \cup {x} |-> IF y = x THEN r ELSE log[y]]

\* log without a record for date x
WithoutRecord(log, x) == [y \in DOMAIN log \ {x} |-> log[y]]

NoTail == [gap |-> 0, len |-> 0, rec |-> Scalar(Num(0))]

\* a few logs for the runs that vary the data sources and the flags
SmallLogs(t) ==
    {EmptyLog,
     RunLog(t, 0, 30, Obj(Num(2), Num(3)), NoTail),
     RunLog(t, 1, 3, Scalar(Num(MaxHours)), NoTail)}

\* logs with one malformed record on the day p days before t
MalformedLogs(t) ==
    {WithRecord(RunLog(t, 0, k, r, NoTail), addDays(t, 0 - p), m) :
        k \in {0, 5, 30}, r \in {Obj(Num(2), Num(3)), Scalar(Num(MaxHours))},
        p \in {0, 1, 29}, m \in Malformed}

NoScore == [points |-> Undef]
NoGrade == [grade |-> "", label |-> ""]
NoDate == <<0, 0, 0>>

InitRest ==
    /\ pc = "start"
    /\ data = NullData
    /\ today = NoDate
    /\ byDate = EmptyLog
    /\ consistency = NoScore
    /\ autonomy = NoScore
    /\ ghostScore = NoScore
    /\ volume = NoScore
    /\ streak = NoScore
    /\ total = Undef
    /\ g = NoGrade
    /\ stdout = <<>>
    /\ stderr = <<>>
    /\ exitCode = "running"

\* the generated logs, delivered by the first candidate
InitRuns ==
    /\ clock \in Todays
    /\ \E o \in {0 - 1, 0, 1}, k \in 0 .. MaxRun, r \in Records, tail \in Tails :
           sources = <<Source("ok", RunLog(clock, o, k, r, tail)),
                       Source("throws", EmptyLog)>>
    /\ helpFlag = FALSE
    /\ jsonFlag = TRUE
    /\ shareFlag = FALSE

\* every combination of source outcomes and flags, on a few logs
InitSources ==
    /\ clock = <<2024, 1, 10>>
    /\ \E k1 \in SourceKinds, k2 \in SourceKinds,
          l1 \in SmallLogs(clock), l2 \in SmallLogs(clock) :
           sources = <<Source(k1, IF k1 = "ok" THEN l1 ELSE EmptyLog),
                       Source(k2, IF k2 = "ok" THEN l2 ELSE EmptyLog)>>
    /\ helpFlag \in BOOLEAN
    /\ jsonFlag \in BOOLEAN
    /\ shareFlag \in BOOLEAN

\* logs with one malformed record
InitMalformed ==
    /\ clock = <<2024, 3, 1>>
    /\ \E l \in MalformedLogs(clock) :
           sources = <<Source("ok", l), Source("throws", EmptyLog)>>
    /\ helpFlag = FALSE
    /\ jsonFlag \in BOOLEAN
    /\ shareFlag = FALSE

Init == (InitRuns \/ InitSources \/ InitMalformed) /\ InitRest

(***************************************************************************)
(* Main                                                                    *)
(***************************************************************************)
\* the usage text, the score breakdown and the grade table, as one item
HelpText ==
    <<[kind |-> "help", name |-> "usage", score |-> Undef, grade |-> "",
       label |-> ""]>>

\* if (helpFlag) { console.log(help text); process.exit(0) }
Help ==
    /\ pc = "start"
    /\ helpFlag
    /\ stdout' = stdout \o HelpText
    /\ exitCode' = "0"
    /\ pc' = "exited"
    /\ UNCHANGED <<sources, clock, helpFlag, jsonFlag, shareFlag, data, today,
                   byDate, consistency, autonomy, ghostScore, volume, streak,
                   total, g, stderr>>

\* const data = loadData(), reached when no help flag is given
LoadData ==
    /\ pc = "start"
    /\ ~helpFlag
    /\ data' = loadData(sources)
    /\ pc' = "guard"
    /\ UNCHANGED <<sources, clock, helpFlag, jsonFlag, shareFlag, today, byDate,
                   consistency, autonomy, ghostScore, volume, streak, total, g,
                   stdout, stderr, exitCode>>

\* if (!data || !data.byDate) { console.error ...; process.exit(1) }
DataUnavailable ==
    /\ pc = "guard"
    /\ data.isNull
    /\ stderr' = stderr \o <<"Error: Could not load cc-agent-load data.",
                             "Install: npm i -g cc-agent-load">>
    /\ exitCode' = "1"
    /\ pc' = "exited"
    /\ UNCHANGED <<sources, clock, helpFlag, jsonFlag, shareFlag, data, today, byDate,
                   consistency, autonomy, ghostScore, volume, streak, total, g,
                   stdout>>

\* today, byDate, the five components, total and g
Score ==
    /\ pc = "guard"
    /\ ~data.isNull
    /\ today' = clock
    /\ byDate' = data.byDate
    /\ consistency' = scoreConsistency(data.byDate, clock, Window)
    /\ autonomy' = scoreAutonomy(data.byDate, clock, Window)
    /\ ghostScore' = scoreGhostDays(data.byDate, clock, Window)
    /\ volume' = scoreVolume(data.byDate, clock, Window)
    /\ streak' = scoreStreak(computeStreak(data.byDate, clock))
    /\ total' = sumPoints(consistency', autonomy', ghostScore', volume', streak')
    /\ g' = grade(total')
    /\ pc' = "scored"
    /\ UNCHANGED <<sources, clock, helpFlag, jsonFlag, shareFlag, data, stdout, stderr,
                   exitCode>>

Line(kind, name, score) ==
    [kind |-> kind, name |-> name, score |-> score, grade |-> g.grade,
     label |-> g.label]

\* if (jsonFlag) { console.log(JSON.stringify(...)); process.exit(0) }
OutputJson ==
    /\ pc = "scored"
    /\ jsonFlag
    /\ stdout' = stdout \o <<Line("json", "score", total)>>
    /\ exitCode' = "0"
    /\ pc' = "exited"
    /\ UNCHANGED <<sources, clock, helpFlag, jsonFlag, shareFlag, data, today, byDate,
                   consistency, autonomy, ghostScore, volume, streak, total, g,
                   stderr>>

\* x.toFixed(...) throws a TypeError when x is a string
toFixedThrows(x) == x.k = "str"

Headline == <<Line("headline", "total", total)>>

Rows ==
    <<Line("row", "Consistency", consistency.points),
      Line("row", "Autonomy", autonomy.points),
      Line("row", "Ghost Days", ghostScore.points),
      Line("row", "Volume", volume.points),
      Line("row", "Streak", streak.points)>>

ShareText == IF shareFlag THEN <<Line("share", "total", total)>> ELSE <<>>

\* the display: the headline, then the rows, whose detail strings are
\* built before any row is printed, then the share text
Display ==
    /\ pc = "scored"
    /\ ~jsonFlag
    /\ IF toFixedThrows(autonomy.ratio) \/ toFixedThrows(autonomy.subHours)
          \/ toFixedThrows(autonomy.mainHours) \/ toFixedThrows(volume.totalHours)
       THEN /\ stdout' = stdout \o Headline
            /\ stderr' = stderr \o <<"TypeError">>
            /\ exitCode' = "1"
       ELSE /\ stdout' = stdout \o Headline \o Rows \o ShareText
            /\ stderr' = stderr
            /\ exitCode' = "0"
    /\ pc' = "exited"
    /\ UNCHANGED <<sources, clock, helpFlag, jsonFlag, shareFlag, data, today, byDate,
                   consistency, autonomy, ghostScore, volume, streak, total, g>>

Next == Help \/ LoadData \/ DataUnavailable \/ Score \/ OutputJson \/ Display

Spec == Init /\ [][Next]_vars

\* the grader applied to every total, for the grade table
InitGrade ==
    /\ sources = <<>>
    /\ clock = NoDate
    /\ helpFlag = FALSE
    /\ jsonFlag = FALSE
    /\ shareFlag = FALSE
    /\ pc = "total"
    /\ data = NullData
    /\ today = NoDate
    /\ byDate = EmptyLog
    /\ consistency = NoScore
    /\ autonomy = NoScore
    /\ ghostScore = NoScore
    /\ volume = NoScore
    /\ streak = NoScore
    /\ total \in {Num(i) : i \in 0 .. 100}
    /\ g = NoGrade
    /\ stdout = <<>>
    /\ stderr = <<>>
    /\ exitCode = "running"

\* const g = grade(total)
Grade ==
    /\ pc = "total"
    /\ g' = grade(total)
    /\ pc' = "graded"
    /\ UNCHANGED <<sources, clock, helpFlag, jsonFlag, shareFlag, data, today, byDate,
                   consistency, autonomy, ghostScore, volume, streak, total,
                   stdout, stderr, exitCode>>

NextGrade == Grade

SpecGrade == InitGrade /\ [][NextGrade]_vars

(***************************************************************************)
(* Reference definitions for the properties                                *)
(***************************************************************************)
\* days before each month in a common year
CumDays == <<0, 31, 59, 90, 120, 151, 181, 212, 243, 273, 304, 334>>

\* the day number of a calendar date of 2000..2099, counted from 2000-01-01
DayNum(x) ==
    (x[1] - 2000) * 365 + ((x[1] - 2000 + 3) \div 4) + CumDays[x[2]]
    + (IF x[2] > 2 /\ x[1] % 4 = 0 THEN 1 ELSE 0) + x[3]

ValidDate(x) ==
    /\ x[2] \in 1 .. 12
    /\ x[3] >= 1
    /\ x[3] <= (IF x[2] = 12 THEN 31 ELSE CumDays[x[2] + 1] - CumDays[x[2]])
               + (IF x[2] = 2 /\ x[1] % 4 = 0 THEN 1 ELSE 0)

\* the calendar dates of the month of t, the two months before and the
\* month after
NearDates(t) ==
    LET mi == t[1] * 12 + (t[2] - 1)
    IN {x \in {<<j \div 12, (j % 12) + 1, dd>> : j \in (mi - 2) .. (mi + 1), dd \in 1 .. 31} :
            ValidDate(x)}

\* the calendar date n days after t (before, for n < 0)
DateAt(t, n) == CHOOSE x \in NearDates(t) : DayNum(x) = DayNum(t) + n

\* the state belongs to a run of the script
SpecIsRun == Len(sources) > 0

\* a run has computed its score
HasScore == pc \in {"scored", "exited"} /\ ~data.isNull

NonNegInt(v) == v.k = "num" /\ v.d = 1 /\ v.n >= 0

\* a structured record with two non-negative hour fields, or a legacy
\* non-negative number
WellTypedRecord(v) ==
    IF v.t = "object" THEN NonNegInt(v.main) /\ NonNegInt(v.sub)
    ELSE NonNegInt(v.val)

WellTyped(log) == \A x \in DOMAIN log : WellTypedRecord(log[x])

\* primary and secondary hours of a well-typed record
Primary(v) == IF v.t = "object" THEN v.main.n ELSE 0
Secondary(v) == IF v.t = "object" THEN v.sub.n ELSE v.val.n

\* the dates of the log inside the window of t
InWindow(log, t) ==
    {x \in DOMAIN log : DayNum(x) <= DayNum(t) /\ DayNum(x) >= DayNum(t) - (Window - 1)}

RECURSIVE SumPrimary(_, _)
SumPrimary(log, S) ==
    IF S = {} THEN 0
    ELSE LET x == CHOOSE y \in S : TRUE
         IN Primary(log[x]) + SumPrimary(log, S \ {x})

RECURSIVE SumSecondary(_, _)
SumSecondary(log, S) ==
    IF S = {} THEN 0
    ELSE LET x == CHOOSE y \in S : TRUE
         IN Secondary(log[x]) + SumSecondary(log, S \ {x})

ActiveDates(log, t) ==
    {x \in InWindow(log, t) : Primary(log[x]) + Secondary(log[x]) > 0}

GhostDates(log, t) ==
    {x \in InWindow(log, t) : Primary(log[x]) = 0 /\ Secondary(log[x]) > 0}

\* day numbers of the dates with positive hours
PositiveDays(log) ==
    {DayNum(x) : x \in {y \in DOMAIN log : Primary(log[y]) + Secondary(log[y]) > 0}}

\* length of the run of consecutive day numbers of P that ends at n
RunEnding(P, n) ==
    CHOOSE k \in 0 .. Cardinality(P) :
        /\ \A i \in 0 .. (k - 1) : (n - i) \in P
        /\ (n - k) \notin P

\* p is num/den rounded to the nearest integer, halves upwards (den > 0)
RoundsTo(p, num, den) == 2 * p * den - den <= 2 * num /\ 2 * num < 2 * p * den + den

\* p is an integer nearest to num/den (den > 0)
NearestTo(p, num, den) == 2 * p * den - den <= 2 * num /\ 2 * num <= 2 * p * den + den

CapAt(c, p) == IF p < c THEN p ELSE c

(***************************************************************************)
(* Properties                                                              *)
(***************************************************************************)
Components == <<consistency, autonomy, ghostScore, volume, streak>>

\* C1: for every well-typed log and anchor date the total, as computed and
\* as printed, is exactly the sum of the five component points and lies
\* in 0..100.
C1_TotalIsSumWithin0To100 ==
    (HasScore /\ WellTyped(byDate)) =>
        /\ \A i \in 1 .. 5 : IsInt(Components[i].points)
        /\ total = Num(consistency.points.n + autonomy.points.n
                       + ghostScore.points.n + volume.points.n + streak.points.n)
        /\ total.n >= 0
        /\ total.n <= 100
        /\ \A j \in 1 .. Len(stdout) :
               stdout[j].kind \in {"json", "headline", "share"} => stdout[j].score = total

\* a well-typed log in which every component is at its maximum
C1_Witness ==
    /\ HasScore
    /\ WellTyped(byDate)
    /\ total = Num(100)
    /\ consistency.points = Num(30)
    /\ volume.points = Num(15)

\* C2: for every well-typed log and anchor date each component's points is
\* an integer within its own range: Consistency 0..30, Autonomy 0..25,
\* GhostDays 0..20, Volume 0..15, Streak 0..10, however long the streak.
C2_ComponentsWithinRange ==
    (HasScore /\ WellTyped(byDate)) =>
        /\ \A i \in 1 .. 5 : IsInt(Components[i].points)
        /\ consistency.points.n \in 0 .. 30
        /\ autonomy.points.n \in 0 .. 25
        /\ ghostScore.points.n \in 0 .. 20
        /\ volume.points.n \in 0 .. 15
        /\ streak.points.n \in 0 .. 10

\* a streak longer than 30 days whose points are capped at 10
C2_Witness ==
    /\ HasScore
    /\ WellTyped(byDate)
    /\ streak.streak > 30
    /\ streak.points = Num(10)
    /\ volume.totalHours.n > 100

\* the grade table of the README
GradeTable ==
    <<[lo |-> 90, hi |-> 100, grade |-> "S", label |-> "Cyborg"],
      [lo |-> 75, hi |-> 89, grade |-> "A", label |-> "Power User"],
      [lo |-> 60, hi |-> 74, grade |-> "B", label |-> "Growing"],
      [lo |-> 45, hi |-> 59, grade |-> "C", label |-> "Early Stage"],
      [lo |-> 30, hi |-> 44, grade |-> "D", label |-> "Getting Started"],
      [lo |-> 0, hi |-> 29, grade |-> "F", label |-> "Dormant"]>>

\* C3: grade maps every integer total of 0..100 to the one tier of the
\* grade table whose range, inclusive at both ends, holds the total; the
\* ranges neither overlap nor leave a gap.
C3_GradeMatchesTable ==
    pc = "graded" =>
        /\ Cardinality({i \in 1 .. 6 : GradeTable[i].lo <= total.n /\ total.n <= GradeTable[i].hi}) = 1
        /\ \A i \in 1 .. 6 :
               (GradeTable[i].lo <= total.n /\ total.n <= GradeTable[i].hi) =>
                   g = [grade |-> GradeTable[i].grade, label |-> GradeTable[i].label]

\* the total 89, one below the S boundary, graded A
C3_Witness == pc = "graded" /\ total = Num(89) /\ g.grade = "A"

\* C4: when the anchor date has no record the streak is the number of
\* consecutive positive days ending yesterday; when the anchor date has a
\* positive record it is the number ending today; with today absent and
\* exactly the 36 days before it positive it is 36.
C4_StreakStartsFromYesterday ==
    (HasScore /\ WellTyped(byDate)) =>
        /\ today \notin DOMAIN byDate =>
               streak.streak = RunEnding(PositiveDays(byDate), DayNum(today) - 1)
        /\ DayNum(today) \in PositiveDays(byDate) =>
               streak.streak = RunEnding(PositiveDays(byDate), DayNum(today))
        /\ (/\ today \notin DOMAIN byDate
            /\ \A i \in 1 .. 36 : (DayNum(today) - i) \in PositiveDays(byDate)
            /\ (DayNum(today) - 37) \notin PositiveDays(byDate)) =>
               streak.streak = 36

\* today absent, the 36 days before it positive, streak 36
C4_Witness ==
    /\ HasScore
    /\ WellTyped(byDate)
    /\ today \notin DOMAIN byDate
    /\ \A i \in 1 .. 36 : (DayNum(today) - i) \in PositiveDays(byDate)
    /\ streak.streak = 36

ZeroSum(v) == WellTypedRecord(v) /\ Primary(v) + Secondary(v) = 0

\* C5: a record that exists but sums to zero stops the streak like a
\* missing one, in both record forms and on every date of the walk: on the
\* anchor date it gives streak 0 without falling back to yesterday.
C5_ZeroRecordOnAnchorGivesZero ==
    (HasScore /\ WellTyped(byDate)) =>
        /\ (today \in DOMAIN byDate /\ ZeroSum(byDate[today])) => streak.streak = 0
        /\ \A x \in DOMAIN byDate :
               (ZeroSum(byDate[x]) /\ DayNum(x) <= DayNum(today)) =>
                   streak.streak <= DayNum(today) - DayNum(x)

AllUnavailable == \A i \in 1 .. Len(sources) : sources[i].kind # "ok"

FirstAvailable == CHOOSE i \in 1 .. Len(sources) :
    sources[i].kind = "ok" /\ \A j \in 1 .. (i - 1) : sources[j].kind # "ok"

InSeq(x, q) == \E i \in 1 .. Len(q) : q[i] = x

ScoreLines(q) ==
    {j \in 1 .. Len(q) : q[j].kind \in {"json", "headline", "row", "share"}}

\* C6: on a run that consults the data sources, when no candidate yields a
\* byDate mapping the run never computes or prints a score, grade or
\* breakdown and ends with the error message, the install recommendation
\* and a non-zero status; otherwise the loader returns the log of the
\* first candidate that yields a byDate mapping, whatever the earlier
\* candidates did.
C6_UnavailableDataIsAnError ==
    /\ (SpecIsRun /\ ~helpFlag /\ AllUnavailable) =>
           /\ ScoreLines(stdout) = {}
           /\ pc \in {"start", "guard", "exited"}
           /\ total = Undef
           /\ pc = "exited" =>
                  /\ exitCode = "1"
                  /\ InSeq("Error: Could not load cc-agent-load data.", stderr)
                  /\ InSeq("Install: npm i -g cc-agent-load", stderr)
    /\ (SpecIsRun /\ ~helpFlag /\ ~AllUnavailable /\ pc # "start") =>
           /\ ~data.isNull
           /\ data.byDate = sources[FirstAvailable].byDate

\* the four window components of a log for an anchor date
WindowScores(log, t) ==
    <<scoreConsistency(log, t, Window), scoreAutonomy(log, t, Window),
      scoreGhostDays(log, t, Window), scoreVolume(log, t, Window)>>

\* the first dates outside the window: tomorrow and today-30
OutsideDates(t) == {DateAt(t, 1), DateAt(t, 0 - Window)}

\* C7: the four window components read exactly the 30 dates today ..
\* today-29, each once: the dates they look up are the 30 calendar days
\* ending today, across month and year boundaries; their sums and counts
\* are those of the log's records on these dates; and setting or removing
\* the record of tomorrow or of today-30 changes none of the four results.
C7_WindowIsThirtyDaysEndingToday ==
    (pc = "scored" /\ WellTyped(byDate)) =>
        /\ \A i \in 0 .. (Window - 1) :
               /\ ValidDate(addDays(today, 0 - i))
               /\ DayNum(addDays(today, 0 - i)) = DayNum(today) - i
        /\ consistency.activeDays = Cardinality(ActiveDates(byDate, today))
        /\ volume.totalHours =
               Num(SumPrimary(byDate, InWindow(byDate, today))
                   + SumSecondary(byDate, InWindow(byDate, today)))
        /\ autonomy.mainHours = Num(SumPrimary(byDate, InWindow(byDate, today)))
        /\ ghostScore.activeDays = Cardinality(ActiveDates(byDate, today))
        /\ \A x \in OutsideDates(today) :
               /\ WindowScores(WithRecord(byDate, x, Obj(Num(2), Num(3))), today)
                      = <<consistency, autonomy, ghostScore, volume>>
               /\ WindowScores(WithoutRecord(byDate, x), today)
                      = <<consistency, autonomy, ghostScore, volume>>

\* a window that crosses the year boundary, with positive records on
\* tomorrow, on today-30 and on all 30 days of the window
C7_Witness ==
    /\ pc = "scored"
    /\ WellTyped(byDate)
    /\ today = <<2024, 1, 10>>
    /\ <<2024, 1, 11>> \in DOMAIN byDate
    /\ <<2023, 12, 11>> \in DOMAIN byDate
    /\ Secondary(byDate[<<2023, 12, 11>>]) > 0
    /\ consistency.activeDays = 30

\* C8: scoreAutonomy sums primary hours into main and secondary hours
\* (all of a legacy record) into sub over the window; the ratio is
\* sub/main when main > 0, 2 when main = 0 and sub > 0, 0 when both are 0;
\* points is min(25, round(ratio * 12.5)), the product being rounded to a
\* nearest integer (halves upwards, except that the double 1.16 * 12.5
\* lies just below 14.5), so points is 25 from ratio 1.96 on. main = 48 and sub = 71 give 18 points, secondary
\* hours alone give 25, no hours give 0.
C8_AutonomyFormula ==
    (HasScore /\ WellTyped(byDate)) =>
        LET main == SumPrimary(byDate, InWindow(byDate, today))
            sub == SumSecondary(byDate, InWindow(byDate, today))
            r == autonomy.ratio
            p == autonomy.points.n
        IN /\ autonomy.mainHours = Num(main)
           /\ autonomy.subHours = Num(sub)
           /\ IsInt(autonomy.points)
           /\ r.k = "num"
           /\ main > 0 => r.n * main = sub * r.d
           /\ (main = 0 /\ sub > 0) => (r.n = 2 * r.d /\ p = 25)
           /\ (main = 0 /\ sub = 0) => (r.n = 0 /\ p = 0)
           /\ 25 * r.n >= 49 * r.d => p = 25
           /\ 25 * r.n < 49 * r.d =>
                  /\ p < 25
                  /\ NearestTo(p, 25 * r.n, 2 * r.d)
                  /\ 25 * r.n # 29 * r.d => RoundsTo(p, 25 * r.n, 2 * r.d)
           /\ (main = 48 /\ sub = 71) => p = 18

\* main = 48 and sub = 71 over the window, 18 points
C8_Witness ==
    /\ HasScore
    /\ WellTyped(byDate)
    /\ autonomy.mainHours = Num(48)
    /\ autonomy.subHours = Num(71)
    /\ autonomy.points = Num(18)

MalformedRecord(v) == ~WellTypedRecord(v)

\* a field or record that is not a number replaced by 0
Repair(v) ==
    IF v.t = "object"
    THEN Obj(IF NonNegInt(v.main) THEN v.main ELSE Num(0),
             IF NonNegInt(v.sub) THEN v.sub ELSE Num(0))
    ELSE Scalar(IF NonNegInt(v.val) THEN v.val ELSE Num(0))

Repaired(log) == [x \in DOMAIN log |-> Repair(log[x])]

TotalOf(log, t) ==
    sumPoints(scoreConsistency(log, t, Window), scoreAutonomy(log, t, Window),
              scoreGhostDays(log, t, Window), scoreVolume(log, t, Window),
              scoreStreak(computeStreak(log, t)))

\* C9: with one malformed day record in the log the run is not aborted,
\* every component's points is an integer within its range, and the total
\* is the integer in 0..100 that the log gets with the malformed field or
\* record replaced by 0.
C9_MalformedRecordCountsAsZero ==
    (HasScore /\ Cardinality({x \in DOMAIN byDate : MalformedRecord(byDate[x])}) = 1) =>
        /\ \A i \in 1 .. 5 : IsInt(Components[i].points)
        /\ IsInt(total)
        /\ total.n \in 0 .. 100
        /\ total = TotalOf(Repaired(byDate), today)
        /\ pc = "exited" => exitCode = "0"

\* C10: scoreGhostDays counts the window days with any hours as activeDays
\* and those of them with primary = 0 and secondary > 0 (every positive
\* legacy record) as ghostDays, so ghostDays <= activeDays <= 30; pct is
\* ghostDays/activeDays, 0 without active days; points is
\* min(20, round(pct * 25)): 22 ghost days of 30 active give 18, no
\* active day gives 0.
C10_GhostDaysFormula ==
    (HasScore /\ WellTyped(byDate)) =>
        LET gh == ghostScore.ghostDays
            act == ghostScore.activeDays
            p == ghostScore.points.n
        IN /\ act = Cardinality(ActiveDates(byDate, today))
           /\ gh = Cardinality(GhostDates(byDate, today))
           /\ \A x \in InWindow(byDate, today) :
                  (byDate[x].t = "scalar" /\ byDate[x].val.n > 0) =>
                      x \in GhostDates(byDate, today)
           /\ gh <= act
           /\ act <= 30
           /\ IsInt(ghostScore.points)
           /\ act > 0 => /\ ghostScore.pct.n * act = gh * ghostScore.pct.d
                         /\ \E q \in 0 .. 25 : RoundsTo(q, 25 * gh, act) /\ p = CapAt(20, q)
           /\ act = 0 => (ghostScore.pct.n = 0 /\ p = 0)
           /\ (gh = 22 /\ act = 30) => p = 18

\* 22 ghost days among 30 active days, 18 points
C10_Witness ==
    /\ HasScore
    /\ WellTyped(byDate)
    /\ ghostScore.ghostDays = 22
    /\ ghostScore.activeDays = 30
    /\ ghostScore.points = Num(18)

====
